---- MODULE Spec2Model ----
(***************************************************************************)
(* Sharded Merkle forest of adaptive-blockchain-go: shards of blocks, each *)
(* with a Merkle root and a presence filter; ingest with load-score target *)
(* selection, consensus gate, rebalance and neighbour synchronisation.     *)
(*                                                                         *)
(* Hashes are modelled as terms: SHA-256 is taken to be injective, so the  *)
(* hash of a block is the tuple of the fields it is computed from and the  *)
(* hash of a concatenation of two hashes is the ordered pair of them.      *)
(* Go indices are zero-based; sequences here are one-based, see At.        *)
(***************************************************************************)
EXTENDS Integers, Sequences, FiniteSets, TLC

VARIABLES
    merkleForest,   \* [0..n-1 -> [Blocks: Seq(Block), MerkleRoot: Hash]]
    amqFilters,     \* [0..n-1 -> SUBSET Hash], the HashSet of each AMQFilter
    cfgShardCount,  \* the forest's shardCount, fixed at construction
    cfgCapacity,    \* the forest's maxShardCapacity, fixed at construction
    clock,          \* source of time.Now(): the next timestamp
    ingests,        \* calls of addBlockToShards made so far
    last,           \* record of the steps of the last operation
    proofIdx,       \* block index the stored proof was generated for
    proof,          \* result of the last generateMerkleProof
    checkIdx,       \* block index the stored proof was validated for
    verdict,        \* result of the last validateMerkleProof
    phase,          \* "idle", "proved" or "verified"
    calls           \* the addBlockToShards calls in progress: position and locals

vars == <<merkleForest, amqFilters, cfgShardCount, cfgCapacity, clock, ingests,
          last, proofIdx, proof, checkIdx, verdict, phase, calls>>

forestVars == <<merkleForest, amqFilters, cfgShardCount, cfgCapacity, clock,
                ingests, last, calls>>

queryVars == <<proofIdx, proof, checkIdx, verdict, phase>>

(***************************************************************************)
(* Program constants and model bounds                                      *)
(***************************************************************************)
shardCount == 2

maxShardCapacity == 5

MaxShards == 5

MaxCapacity == 2

MaxIngests == 5

MaxLeaves == 6

Datas == {"Block A", "Block B"}

Validators == {"Validator1"}

\* the configurations explored: the shipped one and every small one
Configs ==
    {<<shardCount, maxShardCapacity>>}
        \cup ((1..MaxShards) \X (1..MaxCapacity))

(***************************************************************************)
(* Hashing                                                                 *)
(***************************************************************************)
EmptyString == <<>>

At(seq, i) == seq[i + 1]

\* the proof-of-work nonce is a function of the other fields of the block
mineBlock(block) == 0

calculateHash(block) ==
    <<"B", block.Index, block.Timestamp, block.Data, block.PrevHash,
      block.Nonce, block.Validator>>

\* sha256.Sum256([]byte(left + right)), hex encoded
Sha256Concat(left, right) == <<"N", left, right>>

createGenesisBlock(ts) ==
    LET genesis == [Index |-> 0, Timestamp |-> ts, Data |-> "Genesis Block",
                    PrevHash |-> EmptyString, Hash |-> EmptyString,
                    Nonce |-> 0, Validator |-> ""]
        mined == [genesis EXCEPT !.Nonce = mineBlock(genesis)]
    IN  [mined EXCEPT !.Hash = calculateHash(mined)]

createBlock(prevBlock, data, validator, ts) ==
    LET newBlock == [Index |-> prevBlock.Index + 1, Timestamp |-> ts,
                     Data |-> data, PrevHash |-> prevBlock.Hash,
                     Hash |-> EmptyString, Nonce |-> 0,
                     Validator |-> validator]
        mined == [newBlock EXCEPT !.Nonce = mineBlock(newBlock)]
    IN  [mined EXCEPT !.Hash = calculateHash(mined)]

(***************************************************************************)
(* Merkle tree                                                             *)
(***************************************************************************)
BlockHashes(blocks) == [k \in 1..Len(blocks) |-> blocks[k].Hash]

\* one level of the tree: adjacent pairs, the last node of an odd level
\* paired with itself
RECURSIVE PairLevel(_, _)
PairLevel(hashes, i) ==
    IF i >= Len(hashes) THEN <<>>
    ELSE LET right == IF i + 1 < Len(hashes) THEN At(hashes, i + 1)
                      ELSE At(hashes, i)
         IN  <<Sha256Concat(At(hashes, i), right)>> \o PairLevel(hashes, i + 2)

RECURSIVE ReduceLevels(_)
ReduceLevels(hashes) ==
    IF Len(hashes) > 1 THEN ReduceLevels(PairLevel(hashes, 0))
    ELSE At(hashes, 0)

\* pairs a lone leaf with itself instead of taking it as the root
updateMerkleRootPadsSingle(blocks) ==
    IF Len(blocks) = 0 THEN EmptyString
    ELSE IF Len(blocks) = 1
         THEN Sha256Concat(At(blocks, 0).Hash, At(blocks, 0).Hash)
         ELSE ReduceLevels(BlockHashes(blocks))

updateMerkleRoot(blocks) ==
    IF Len(blocks) = 0 THEN EmptyString
    ELSE ReduceLevels(BlockHashes(blocks))

SiblingAlwaysLeft(left, right, i, index) == left

Sibling(left, right, i, index) == IF i + 1 = index THEN left ELSE right

\* the scan of one level; index is reassigned inside the scan, as in the
\* source, and later pairs of the same level are tested against the new value
RECURSIVE ProofScan(_, _, _, _)
ProofScan(level, i, index, prf) ==
    IF i >= Len(level) THEN [proof |-> prf, index |-> index]
    ELSE LET left == At(level, i)
             right == IF i + 1 < Len(level) THEN At(level, i + 1) ELSE left
         IN  IF i = index \/ i + 1 = index
             THEN ProofScan(level, i + 2, i \div 2,
                            Append(prf, Sibling(left, right, i, index)))
             ELSE ProofScan(level, i + 2, index, prf)

RECURSIVE ProofLevels(_, _, _)
ProofLevels(level, index, prf) ==
    IF Len(level) > 1
    THEN LET s == ProofScan(level, 0, index, prf)
         IN  ProofLevels(PairLevel(level, 0), s.index, s.proof)
    ELSE prf

generateMerkleProof(forest, shardIndex, blockIndex) ==
    LET blocks == forest[shardIndex].Blocks
    IN  IF blockIndex >= Len(blocks) THEN <<>>
        ELSE ProofLevels(BlockHashes(blocks), blockIndex, <<>>)

CombineIgnoringParity(hash, sibling, index) == Sha256Concat(hash, sibling)

Combine(hash, sibling, index) ==
    IF index % 2 = 0 THEN Sha256Concat(hash, sibling)
    ELSE Sha256Concat(sibling, hash)

\* never halves the index: every level is combined by the leaf's own parity
RECURSIVE FoldProofKeepsIndex(_, _, _, _)
FoldProofKeepsIndex(hash, index, prf, k) ==
    IF k > Len(prf) THEN hash
    ELSE FoldProofKeepsIndex(Combine(hash, prf[k], index), index, prf, k + 1)

RECURSIVE FoldProof(_, _, _, _)
FoldProof(hash, index, prf, k) ==
    IF k > Len(prf) THEN hash
    ELSE FoldProof(Combine(hash, prf[k], index), index \div 2, prf, k + 1)

validateMerkleProof(forest, shardIndex, blockIndex, prf) ==
    LET leaf == At(forest[shardIndex].Blocks, blockIndex).Hash
    IN  FoldProof(leaf, blockIndex, prf, 1) = forest[shardIndex].MerkleRoot

(***************************************************************************)
(* Forest operations                                                       *)
(***************************************************************************)
NumShards(forest) == Cardinality(DOMAIN forest)

BlockCount(forest, i) == Len(forest[i].Blocks)

\* computed for shards 1..n-1 only; shard 0 enters with its raw block count
loadScore(blockCount, cap) ==
    IF blockCount > cap - 1 THEN blockCount + 2 ELSE blockCount

RECURSIVE SelectScan(_, _, _, _, _)
SelectScan(forest, cap, i, target, minScore) ==
    IF i >= NumShards(forest) THEN target
    ELSE LET score == loadScore(BlockCount(forest, i), cap)
         IN  IF score < minScore
             THEN SelectScan(forest, cap, i + 1, i, score)
             ELSE SelectScan(forest, cap, i + 1, target, minScore)

selectTargetShard(forest, cap) ==
    SelectScan(forest, cap, 1, 0, BlockCount(forest, 0))

AppendBlockStaleRoot(forest, target, newBlock) ==
    [forest EXCEPT ![target].Blocks = Append(@, newBlock)]

AppendBlock(forest, target, newBlock) ==
    LET blocks == Append(forest[target].Blocks, newBlock)
    IN  [forest EXCEPT ![target] =
            [Blocks |-> blocks, MerkleRoot |-> updateMerkleRoot(blocks)]]

updateAMQ(amq, shardIndex, hash) ==
    [amq EXCEPT ![shardIndex] = @ \cup {hash}]

isInAMQ(amq, shardIndex, hash) == hash \in amq[shardIndex]

NeedsRebalanceNever(forest, target, cap) == FALSE

NeedsRebalance(forest, target, cap) == BlockCount(forest, target) > cap

\* non-strict comparisons: the highest index wins among equal counts
RECURSIVE ExtremesScanLastWins(_, _, _)
ExtremesScanLastWins(forest, i, acc) ==
    IF i >= NumShards(forest) THEN acc
    ELSE LET count == BlockCount(forest, i)
             a1 == IF count >= acc.maxBlockCount
                   THEN [acc EXCEPT !.maxShardIndex = i, !.maxBlockCount = count]
                   ELSE acc
             a2 == IF count <= a1.minBlockCount
                   THEN [a1 EXCEPT !.minShardIndex = i, !.minBlockCount = count]
                   ELSE a1
         IN  ExtremesScanLastWins(forest, i + 1, a2)

\* strict comparisons: the lowest index wins among equal counts
RECURSIVE ExtremesScan(_, _, _)
ExtremesScan(forest, i, acc) ==
    IF i >= NumShards(forest) THEN acc
    ELSE LET count == BlockCount(forest, i)
             a1 == IF count > acc.maxBlockCount
                   THEN [acc EXCEPT !.maxShardIndex = i, !.maxBlockCount = count]
                   ELSE acc
             a2 == IF count < a1.minBlockCount
                   THEN [a1 EXCEPT !.minShardIndex = i, !.minBlockCount = count]
                   ELSE a1
         IN  ExtremesScan(forest, i + 1, a2)

Extremes(forest) ==
    ExtremesScan(forest, 0,
                 [maxShardIndex |-> 0, minShardIndex |-> 0, maxBlockCount |-> 0,
                  minBlockCount |-> BlockCount(forest, 0)])

ShouldMoveOnAnyGap(e) ==
    e.maxShardIndex # e.minShardIndex /\ e.maxBlockCount - e.minBlockCount > 0

ShouldMove(e) ==
    e.maxShardIndex # e.minShardIndex /\ e.maxBlockCount - e.minBlockCount > 1

\* takes the donor's first block instead of its last
MoveTailTakesHead(forest, from, to) ==
    LET blockToMove == At(forest[from].Blocks, 0)
        fromBlocks == SubSeq(forest[from].Blocks, 2, Len(forest[from].Blocks))
        toBlocks == Append(forest[to].Blocks, blockToMove)
    IN  [forest EXCEPT
            ![from] = [Blocks |-> fromBlocks,
                       MerkleRoot |-> updateMerkleRoot(fromBlocks)],
            ![to] = [Blocks |-> toBlocks,
                     MerkleRoot |-> updateMerkleRoot(toBlocks)]]

MoveTailKeepsDonor(forest, from, to) ==
    LET blockToMove == At(forest[from].Blocks, Len(forest[from].Blocks) - 1)
        toBlocks == Append(forest[to].Blocks, blockToMove)
    IN  [forest EXCEPT ![to] = [Blocks |-> toBlocks,
                                MerkleRoot |-> updateMerkleRoot(toBlocks)]]

MoveTail(forest, from, to) ==
    LET blockToMove == At(forest[from].Blocks, Len(forest[from].Blocks) - 1)
        fromBlocks == SubSeq(forest[from].Blocks, 1, Len(forest[from].Blocks) - 1)
        toBlocks == Append(forest[to].Blocks, blockToMove)
    IN  [forest EXCEPT
            ![from] = [Blocks |-> fromBlocks,
                       MerkleRoot |-> updateMerkleRoot(fromBlocks)],
            ![to] = [Blocks |-> toBlocks,
                     MerkleRoot |-> updateMerkleRoot(toBlocks)]]

rebalanceShards(forest) ==
    LET e == Extremes(forest)
    IN  IF ShouldMove(e) THEN MoveTail(forest, e.maxShardIndex, e.minShardIndex)
        ELSE forest

\* leaves the last block of every shard out of its root
synchronizeShardsSkipsTail(forest) ==
    [i \in DOMAIN forest |->
        [forest[i] EXCEPT !.MerkleRoot =
            updateMerkleRoot(SubSeq(forest[i].Blocks, 1,
                                    Len(forest[i].Blocks) - 1))]]

synchronizeShards(forest) ==
    [i \in DOMAIN forest |->
        [forest[i] EXCEPT !.MerkleRoot = updateMerkleRoot(forest[i].Blocks)]]

\* the proof of the source's tail, validated against the source's stored root
TailProofValid(forest, sourceShardIndex) ==
    LET lastBlockIndex == Len(forest[sourceShardIndex].Blocks) - 1
        prf == generateMerkleProof(forest, sourceShardIndex, lastBlockIndex)
    IN  validateMerkleProof(forest, sourceShardIndex, lastBlockIndex, prf)

\* puts the copy in front of the neighbour's blocks
TransferPrepends(forest, sourceShardIndex, targetShardIndex) ==
    LET lastBlockIndex == Len(forest[sourceShardIndex].Blocks) - 1
        blockToTransfer == At(forest[sourceShardIndex].Blocks, lastBlockIndex)
    IN  [forest EXCEPT ![targetShardIndex].Blocks = <<blockToTransfer>> \o @]

TransferAsMove(forest, sourceShardIndex, targetShardIndex) ==
    LET n == Len(forest[sourceShardIndex].Blocks)
        blockToTransfer == At(forest[sourceShardIndex].Blocks, n - 1)
    IN  [forest EXCEPT
            ![sourceShardIndex].Blocks = SubSeq(@, 1, n - 1),
            ![targetShardIndex].Blocks = Append(@, blockToTransfer)]

\* the block is appended as it is: Index, PrevHash and Hash stay the source's
Transfer(forest, sourceShardIndex, targetShardIndex) ==
    LET lastBlockIndex == Len(forest[sourceShardIndex].Blocks) - 1
        blockToTransfer == At(forest[sourceShardIndex].Blocks, lastBlockIndex)
    IN  [forest EXCEPT ![targetShardIndex].Blocks = Append(@, blockToTransfer)]

\* always takes the abort branch
synchronizeStateAcrossShardsAborts(forest, sourceShardIndex, targetShardIndex) ==
    forest

synchronizeStateAcrossShards(forest, sourceShardIndex, targetShardIndex) ==
    IF TailProofValid(forest, sourceShardIndex)
    THEN synchronizeShards(Transfer(forest, sourceShardIndex, targetShardIndex))
    ELSE forest

\* syncs the target shard with itself
NeighborIndexSelf(forest, target) == target

NeighborIndex(forest, target) == (target + 1) % NumShards(forest)

(***************************************************************************)
(* addBlockToShards, step by step                                          *)
(***************************************************************************)
RejectOutcomeAppends(forest, amq, target, newBlock) ==
    LET appended == AppendBlock(forest, target, newBlock)
    IN  [forest |-> appended, amq |-> amq, accepted |-> FALSE,
         target |-> target, newBlock |-> newBlock, appended |-> appended,
         rebalanceCalled |-> FALSE, rebalanced |-> appended, synced |-> FALSE]

\* the outcome records the forest after each step of the call
RejectOutcome(forest, amq, target, newBlock) ==
    [forest |-> forest, amq |-> amq, accepted |-> FALSE, target |-> target,
     newBlock |-> newBlock, appended |-> forest, rebalanceCalled |-> FALSE,
     rebalanced |-> forest, synced |-> FALSE]

\* runs the neighbour sync before the rebalance step
AcceptOutcomeSyncsFirst(forest, amq, cap, target, newBlock) ==
    LET appended == AppendBlock(forest, target, newBlock)
        amq1 == updateAMQ(amq, target, newBlock.Hash)
        called == NeedsRebalance(appended, target, cap)
        neighbor == NeighborIndex(appended, target)
        copied == synchronizeStateAcrossShards(appended, target, neighbor)
    IN  [forest |-> IF called THEN rebalanceShards(copied) ELSE copied,
         amq |-> amq1, accepted |-> TRUE, target |-> target,
         newBlock |-> newBlock, appended |-> appended,
         rebalanceCalled |-> called,
         rebalanced |-> IF called THEN rebalanceShards(appended) ELSE appended,
         synced |-> TailProofValid(appended, target)]

AcceptOutcome(forest, amq, cap, target, newBlock) ==
    LET appended == AppendBlock(forest, target, newBlock)
        amq1 == updateAMQ(amq, target, newBlock.Hash)
        called == NeedsRebalance(appended, target, cap)
        rebalanced == IF called THEN rebalanceShards(appended) ELSE appended
        neighbor == NeighborIndex(rebalanced, target)
    IN  [forest |-> synchronizeStateAcrossShards(rebalanced, target, neighbor),
         amq |-> amq1, accepted |-> TRUE, target |-> target,
         newBlock |-> newBlock, appended |-> appended,
         rebalanceCalled |-> called, rebalanced |-> rebalanced,
         synced |-> TailProofValid(rebalanced, target)]

addBlockToShards(forest, amq, cap, data, validator, ts, dBFTConsensus) ==
    LET target == selectTargetShard(forest, cap)
        shard == forest[target]
        prevBlock == At(shard.Blocks, Len(shard.Blocks) - 1)
        newBlock == createBlock(prevBlock, data, validator, ts)
    IN  IF dBFTConsensus
        THEN AcceptOutcome(forest, amq, cap, target, newBlock)
        ELSE RejectOutcome(forest, amq, target, newBlock)

(***************************************************************************)
(* The ledger service                                                      *)
(***************************************************************************)
\* genesis blocks are created one after the other: timestamps 0..n-1
InitForest(n) ==
    [i \in 0..(n - 1) |->
        LET genesis == createGenesisBlock(i)
        IN  [Blocks |-> <<genesis>>, MerkleRoot |-> genesis.Hash]]

initAMQFilters(n) == [i \in 0..(n - 1) |-> {}]

\* what `last` keeps of an operation: the state before it and after each step
OpRecord(op, pre, preAmq, r) ==
    [op |-> op, pre |-> pre, preAmq |-> preAmq, accepted |-> r.accepted,
     target |-> r.target, newBlock |-> r.newBlock, appended |-> r.appended,
     rebalanceCalled |-> r.rebalanceCalled, rebalanced |-> r.rebalanced,
     synced |-> r.synced]

NoIngest(forest, amq) ==
    RejectOutcome(forest, amq, 0, At(forest[0].Blocks, 0))

Callers == 1..2

\* no call of addBlockToShards has been entered
NoCalls(forest) ==
    [p \in Callers |->
        [pc |-> "start", target |-> 0, newBlock |-> At(forest[0].Blocks, 0),
         blocks |-> <<>>, accepted |-> FALSE]]

QueryIdle ==
    /\ proofIdx = 0
    /\ proof = <<>>
    /\ checkIdx = 0
    /\ verdict = FALSE
    /\ phase = "idle"

Init ==
    \E cfg \in Configs :
        /\ cfgShardCount = cfg[1]
        /\ cfgCapacity = cfg[2]
        /\ merkleForest = InitForest(cfg[1])
        /\ amqFilters = initAMQFilters(cfg[1])
        /\ clock = cfg[1]
        /\ ingests = 0
        /\ last = OpRecord("init", InitForest(cfg[1]), initAMQFilters(cfg[1]),
                           NoIngest(InitForest(cfg[1]), initAMQFilters(cfg[1])))
        /\ calls = NoCalls(InitForest(cfg[1]))
        /\ QueryIdle

\* one call of addBlockToShards; the consensus gate's answer is an input
AddBlock(data, validator, dBFTConsensus) ==
    /\ ingests < MaxIngests
    /\ LET r == addBlockToShards(merkleForest, amqFilters, cfgCapacity, data,
                                 validator, clock, dBFTConsensus)
       IN  /\ merkleForest' = r.forest
           /\ amqFilters' = r.amq
           /\ last' = OpRecord("ingest", merkleForest, amqFilters, r)
    /\ clock' = clock + 1
    /\ ingests' = ingests + 1
    /\ UNCHANGED <<cfgShardCount, cfgCapacity, calls>>
    /\ UNCHANGED queryVars

\* synchronizeShards as called by ensureConsistency and by main
SynchronizeShards ==
    /\ merkleForest' = synchronizeShards(merkleForest)
    /\ last' = OpRecord("recompute", merkleForest, amqFilters,
                        NoIngest(merkleForest, amqFilters))
    /\ UNCHANGED <<amqFilters, cfgShardCount, cfgCapacity, clock, ingests,
                   calls>>
    /\ UNCHANGED queryVars

Next ==
    \/ \E data \in Datas, validator \in Validators, dBFTConsensus \in BOOLEAN :
           AddBlock(data, validator, dBFTConsensus)
    \/ SynchronizeShards

Spec == Init /\ [][Next]_vars

(***************************************************************************)
(* Proof generation and validation over arbitrary leaf sequences.  A leaf  *)
(* sequence is given up to renaming of its hashes: position k holds leaf   *)
(* 1..m+1 where m is the largest leaf used before it, so every pattern of  *)
(* equal and distinct leaves of each length occurs once.                   *)
(***************************************************************************)
RECURSIVE SeqMax(_)
SeqMax(s) ==
    IF Len(s) = 0 THEN 0
    ELSE LET m == SeqMax(SubSeq(s, 1, Len(s) - 1))
         IN  IF s[Len(s)] > m THEN s[Len(s)] ELSE m

RECURSIVE LeafPatterns(_)
LeafPatterns(k) ==
    IF k = 1 THEN {<<1>>}
    ELSE UNION {{Append(s, v) : v \in 1..(SeqMax(s) + 1)} :
                    s \in LeafPatterns(k - 1)}

TreeForest(pattern) ==
    [i \in {0} |->
        LET blocks == [k \in 1..Len(pattern) |-> createGenesisBlock(pattern[k])]
        IN  [Blocks |-> blocks, MerkleRoot |-> updateMerkleRoot(blocks)]]

InitTree ==
    \E k \in 1..MaxLeaves : \E pattern \in LeafPatterns(k) :
        /\ cfgShardCount = 1
        /\ cfgCapacity = maxShardCapacity
        /\ merkleForest = TreeForest(pattern)
        /\ amqFilters = initAMQFilters(1)
        /\ clock = k + 1
        /\ ingests = 0
        /\ last = OpRecord("init", TreeForest(pattern), initAMQFilters(1),
                           NoIngest(TreeForest(pattern), initAMQFilters(1)))
        /\ calls = NoCalls(TreeForest(pattern))
        /\ QueryIdle

GenerateProof(blockIndex) ==
    /\ phase = "idle"
    /\ proof' = generateMerkleProof(merkleForest, 0, blockIndex)
    /\ proofIdx' = blockIndex
    /\ phase' = "proved"
    /\ UNCHANGED <<checkIdx, verdict>>
    /\ UNCHANGED forestVars

ValidateProof(blockIndex) ==
    /\ phase = "proved"
    /\ verdict' = validateMerkleProof(merkleForest, 0, blockIndex, proof)
    /\ checkIdx' = blockIndex
    /\ phase' = "verified"
    /\ UNCHANGED <<proofIdx, proof>>
    /\ UNCHANGED forestVars

\* proofs are requested for every index of the shard, one below and one past
\* the end; validateMerkleProof indexes Blocks directly and is called with
\* indices of the shard only
NextTree ==
    \/ \E blockIndex \in (0 - 1)..BlockCount(merkleForest, 0) :
           GenerateProof(blockIndex)
    \/ \E blockIndex \in 0..(BlockCount(merkleForest, 0) - 1) :
           ValidateProof(blockIndex)

SpecTree == InitTree /\ [][NextTree]_vars

(***************************************************************************)
(* Two calls of addBlockToShards running at once on the package-level      *)
(* merkleForest and amqFilters, which no lock guards.  A call advances one *)
(* statement group at a time; the append of line 54 reads the slice and    *)
(* assigns the grown slice as two steps, so that two calls can both read   *)
(* before either writes.                                                   *)
(***************************************************************************)
ConcVars == <<cfgShardCount, cfgCapacity, ingests, last>>

\* lines 27-51: the target, its tail and the new block, all from the forest
\* as it is now
CallSelect(p, data, validator) ==
    /\ calls[p].pc = "start"
    /\ LET target == selectTargetShard(merkleForest, cfgCapacity)
           shard == merkleForest[target]
           prevBlock == At(shard.Blocks, Len(shard.Blocks) - 1)
           newBlock == createBlock(prevBlock, data, validator, clock)
       IN  calls' = [calls EXCEPT ![p] = [@ EXCEPT !.pc = "selected",
                                                   !.target = target,
                                                   !.newBlock = newBlock]]
    /\ clock' = clock + 1
    /\ UNCHANGED <<merkleForest, amqFilters>>
    /\ UNCHANGED ConcVars
    /\ UNCHANGED queryVars

\* line 53, and lines 64-66 when the gate says no
CallConsensus(p, dBFTConsensus) ==
    /\ calls[p].pc = "selected"
    /\ calls' = [calls EXCEPT ![p] =
                    [@ EXCEPT !.pc = IF dBFTConsensus THEN "accepted" ELSE "done",
                              !.accepted = dBFTConsensus]]
    /\ UNCHANGED <<merkleForest, amqFilters, clock>>
    /\ UNCHANGED ConcVars
    /\ UNCHANGED queryVars

\* line 54, right-hand side: shard.Blocks is read
CallReadBlocks(p) ==
    /\ calls[p].pc = "accepted"
    /\ calls' = [calls EXCEPT ![p] =
                    [@ EXCEPT !.pc = "read",
                              !.blocks = merkleForest[calls[p].target].Blocks]]
    /\ UNCHANGED <<merkleForest, amqFilters, clock>>
    /\ UNCHANGED ConcVars
    /\ UNCHANGED queryVars

\* line 54, assignment: the slice read earlier, grown by the new block
CallWriteBlocks(p) ==
    /\ calls[p].pc = "read"
    /\ merkleForest' = [merkleForest EXCEPT ![calls[p].target].Blocks =
                            Append(calls[p].blocks, calls[p].newBlock)]
    /\ calls' = [calls EXCEPT ![p].pc = "written"]
    /\ UNCHANGED <<amqFilters, clock>>
    /\ UNCHANGED ConcVars
    /\ UNCHANGED queryVars

\* lines 55 and 57
CallUpdateRoot(p) ==
    /\ calls[p].pc = "written"
    /\ merkleForest' = [merkleForest EXCEPT ![calls[p].target].MerkleRoot =
                            updateMerkleRoot(merkleForest[calls[p].target].Blocks)]
    /\ amqFilters' = updateAMQ(amqFilters, calls[p].target, calls[p].newBlock.Hash)
    /\ calls' = [calls EXCEPT ![p].pc = "rooted"]
    /\ UNCHANGED clock
    /\ UNCHANGED ConcVars
    /\ UNCHANGED queryVars

\* lines 59-61
CallRebalance(p) ==
    /\ calls[p].pc = "rooted"
    /\ merkleForest' = IF NeedsRebalance(merkleForest, calls[p].target, cfgCapacity)
                       THEN rebalanceShards(merkleForest)
                       ELSE merkleForest
    /\ calls' = [calls EXCEPT ![p].pc = "balanced"]
    /\ UNCHANGED <<amqFilters, clock>>
    /\ UNCHANGED ConcVars
    /\ UNCHANGED queryVars

\* line 63
CallSync(p) ==
    /\ calls[p].pc = "balanced"
    /\ merkleForest' = synchronizeStateAcrossShards(merkleForest, calls[p].target,
                            NeighborIndex(merkleForest, calls[p].target))
    /\ calls' = [calls EXCEPT ![p].pc = "done"]
    /\ UNCHANGED <<amqFilters, clock>>
    /\ UNCHANGED ConcVars
    /\ UNCHANGED queryVars

NextConc ==
    \/ \E p \in Callers, data \in Datas, validator \in Validators :
           CallSelect(p, data, validator)
    \/ \E p \in Callers, dBFTConsensus \in BOOLEAN :
           CallConsensus(p, dBFTConsensus)
    \/ \E p \in Callers : CallReadBlocks(p)
    \/ \E p \in Callers : CallWriteBlocks(p)
    \/ \E p \in Callers : CallUpdateRoot(p)
    \/ \E p \in Callers : CallRebalance(p)
    \/ \E p \in Callers : CallSync(p)

SpecConc == Init /\ [][NextConc]_vars

(***************************************************************************)
(* Properties                                                              *)
(***************************************************************************)
Shards == DOMAIN merkleForest

Counts(forest) == [i \in DOMAIN forest |-> BlockCount(forest, i)]

MaxOf(c) == CHOOSE m \in {c[i] : i \in DOMAIN c} : \A i \in DOMAIN c : c[i] <= m

MinOf(c) == CHOOSE m \in {c[i] : i \in DOMAIN c} : \A i \in DOMAIN c : c[i] >= m

Gap(c) == MaxOf(c) - MinOf(c)

RECURSIVE SumOf(_, _)
SumOf(c, S) ==
    IF S = {} THEN 0
    ELSE LET i == CHOOSE x \in S : TRUE IN c[i] + SumOf(c, S \ {i})

TotalBlocks(forest) == SumOf(Counts(forest), DOMAIN forest)

Positions(forest) ==
    UNION {{<<i, k>> : k \in 1..BlockCount(forest, i)} : i \in DOMAIN forest}

HeldBlocks(forest) == {forest[pos[1]].Blocks[pos[2]] : pos \in Positions(forest)}

\* how often each block occurs in the forest
BlockBag(forest) ==
    [b \in HeldBlocks(forest) |->
        Cardinality({pos \in Positions(forest) :
                        forest[pos[1]].Blocks[pos[2]] = b})]

Front(seq) == SubSeq(seq, 1, Len(seq) - 1)

Tail1(seq) == seq[Len(seq)]

\* `after` is `before` with the tail of shard a removed and added as the
\* tail of shard b, and nothing else changed in any block sequence
MovedOne(before, after, a, b) ==
    /\ a # b
    /\ after[a].Blocks = Front(before[a].Blocks)
    /\ after[b].Blocks = Append(before[b].Blocks, Tail1(before[a].Blocks))
    /\ \A i \in DOMAIN before \ {a, b} : after[i].Blocks = before[i].Blocks

SameBlocks(f, g) == \A i \in DOMAIN f : f[i].Blocks = g[i].Blocks

AcceptedIngest == last.op = "ingest" /\ last.accepted

\* C1: at every operation boundary every shard's stored MerkleRoot is the
\* root rebuilt from scratch over the shard's current block hashes.
C1_RootsCurrent ==
    \A i \in Shards :
        merkleForest[i].MerkleRoot = updateMerkleRoot(merkleForest[i].Blocks)

C1_Witness ==
    /\ AcceptedIngest
    /\ last.rebalanceCalled
    /\ ~SameBlocks(last.rebalanced, last.appended)
    /\ last.synced
    /\ C1_RootsCurrent

\* C2: in every shard the block at position 0 has empty PrevHash and every
\* later block's PrevHash is the Hash of the block just before it.
C2_ChainLinked ==
    \A i \in Shards :
        \A k \in 1..BlockCount(merkleForest, i) :
            LET blocks == merkleForest[i].Blocks
            IN  IF k = 1 THEN blocks[k].PrevHash = EmptyString
                ELSE blocks[k].PrevHash = blocks[k - 1].Hash

\* C3: a rebalance step keeps the multiset of blocks of the forest: the
\* total count is the same, and either nothing changed or one block left
\* one shard as its tail and joined another as its tail.
C3_RebalanceConserves ==
    (AcceptedIngest /\ last.rebalanceCalled) =>
        /\ TotalBlocks(last.rebalanced) = TotalBlocks(last.appended)
        /\ BlockBag(last.rebalanced) = BlockBag(last.appended)
        /\ \/ SameBlocks(last.rebalanced, last.appended)
           \/ \E a, b \in Shards : MovedOne(last.appended, last.rebalanced, a, b)

C3_Witness ==
    /\ AcceptedIngest
    /\ last.rebalanceCalled
    /\ ~SameBlocks(last.rebalanced, last.appended)
    /\ BlockBag(last.rebalanced) = BlockBag(last.appended)

\* C4: a proof generated for a valid index verifies for that index against
\* the root of the same leaves, padded odd levels included.
C4_ProofVerifies ==
    (phase = "verified" /\ checkIdx = proofIdx) => verdict = TRUE

\* the target is the last leaf of an odd level on two successive levels
C4_Witness ==
    /\ phase = "verified"
    /\ BlockCount(merkleForest, 0) = 5
    /\ proofIdx = 4
    /\ checkIdx = 4
    /\ proof[1] = merkleForest[0].Blocks[5].Hash
    /\ verdict = TRUE

DistinctLeaves(blocks) ==
    \A j, k \in 1..Len(blocks) : j # k => blocks[j].Hash # blocks[k].Hash

\* C5: over pairwise distinct leaves, the proof generated for index i is
\* rejected when it is validated for another index j.
C5_ProofRejectedElsewhere ==
    (/\ phase = "verified"
     /\ proofIdx \in 0..(BlockCount(merkleForest, 0) - 1)
     /\ checkIdx # proofIdx
     /\ DistinctLeaves(merkleForest[0].Blocks)) => verdict = FALSE

C5_Witness ==
    /\ phase = "verified"
    /\ proofIdx \in 0..(BlockCount(merkleForest, 0) - 1)
    /\ checkIdx # proofIdx
    /\ BlockCount(merkleForest, 0) >= 3
    /\ DistinctLeaves(merkleForest[0].Blocks)
    /\ verdict = FALSE

\* C6: a rejected candidate leaves block sequences, roots and presence
\* filters as they were, and runs neither rebalance nor neighbour sync.
C6_RejectChangesNothing ==
    (last.op = "ingest" /\ ~last.accepted) =>
        /\ merkleForest = last.pre
        /\ amqFilters = last.preAmq
        /\ last.appended = last.pre
        /\ ~last.rebalanceCalled
        /\ ~last.synced

C6_Witness ==
    /\ last.op = "ingest"
    /\ ~last.accepted
    /\ TotalBlocks(merkleForest) > cfgShardCount
    /\ merkleForest = last.pre

ClaimedScore(blockCount, cap) ==
    IF blockCount >= cap - 1 THEN blockCount + 2 ELSE blockCount

ClaimedTarget(forest, cap) ==
    LET score == [i \in DOMAIN forest |-> ClaimedScore(BlockCount(forest, i), cap)]
    IN  CHOOSE t \in DOMAIN forest :
            /\ \A i \in DOMAIN forest : score[t] <= score[i]
            /\ \A i \in DOMAIN forest : i < t => score[i] > score[t]

\* C7: the shard chosen by an ingest is the lowest-indexed shard that
\* minimises blockCount plus 2 if blockCount >= maxShardCapacity - 1, the
\* penalty applying to every shard, shard 0 included.
C7_TargetMinimisesLoadScore ==
    last.op = "ingest" => last.target = ClaimedTarget(last.pre, cfgCapacity)

SomeShardOver(forest, cap) == \E i \in DOMAIN forest : BlockCount(forest, i) > cap

MovedLargestToSmallest(before, after) ==
    \E a, b \in DOMAIN before :
        /\ BlockCount(before, a) = MaxOf(Counts(before))
        /\ BlockCount(before, b) = MinOf(Counts(before))
        /\ MovedOne(before, after, a, b)

\* C8: after the append of an accepted ingest, if any shard holds more than
\* maxShardCapacity blocks the rebalance comparison runs in that ingest, and
\* when the largest and smallest counts differ by more than 1 it moves one
\* block from the largest to the smallest shard.
C8_OverCapacityRebalances ==
    (AcceptedIngest /\ SomeShardOver(last.appended, cfgCapacity)) =>
        /\ last.rebalanceCalled
        /\ Gap(Counts(last.appended)) > 1 =>
               MovedLargestToSmallest(last.appended, last.rebalanced)

C8_Witness ==
    /\ AcceptedIngest
    /\ SomeShardOver(last.appended, cfgCapacity)
    /\ Gap(Counts(last.appended)) > 1
    /\ last.rebalanceCalled
    /\ MovedLargestToSmallest(last.appended, last.rebalanced)

NoMoveReducesGap(c) ==
    \A a, b \in DOMAIN c :
        (a # b /\ c[a] >= 1) =>
            Gap([c EXCEPT ![a] = @ - 1, ![b] = @ + 1]) >= Gap(c)

C10_SyncCopiesTailToNeighbor ==
    (AcceptedIngest /\ last.synced /\ cfgShardCount >= 2) =>
        LET s == last.target
            t == (s + 1) % cfgShardCount
            tail == Tail1(last.rebalanced[s].Blocks)
            copy == Tail1(merkleForest[t].Blocks)
        IN  /\ Front(merkleForest[t].Blocks) = last.rebalanced[t].Blocks
            /\ copy.Data = tail.Data
            /\ copy.Validator = tail.Validator
            /\ copy.Hash = tail.Hash
            /\ \A i \in Shards \ {t} :
                   merkleForest[i].Blocks = last.rebalanced[i].Blocks
            /\ TotalBlocks(merkleForest) = TotalBlocks(last.rebalanced) + 1

C10_Witness ==
    /\ AcceptedIngest
    /\ last.synced
    /\ cfgShardCount >= 3
    /\ last.target = cfgShardCount - 1
    /\ Tail1(merkleForest[0].Blocks) = Tail1(merkleForest[last.target].Blocks)
    /\ TotalBlocks(merkleForest) = TotalBlocks(last.rebalanced) + 1

HeldHashes(forest, i) == {forest[i].Blocks[k].Hash : k \in 1..BlockCount(forest, i)}

\* C11: every block held by a shard is reported by that shard's presence
\* filter, whichever operation put the block there.
C11_NoFalseNegatives ==
    \A i \in Shards :
        \A h \in HeldHashes(merkleForest, i) : isInAMQ(amqFilters, i, h)

\* C12: a shard's presence filter reports a hash only if a block with that
\* hash is currently in the shard.
C12_NoFalsePositives ==
    \A i \in Shards :
        \A h \in amqFilters[i] : h \in HeldHashes(merkleForest, i)

\* C13: no block hash is present in two different shards.
C13_OneOwnerPerHash ==
    \A i, j \in Shards :
        i # j => HeldHashes(merkleForest, i) \cap HeldHashes(merkleForest, j) = {}

\* C14: every block's Index is its position in the shard that holds it,
\* counted from 0.
C14_IndexIsPosition ==
    \A i \in Shards :
        \A k \in 1..BlockCount(merkleForest, i) :
            merkleForest[i].Blocks[k].Index = k - 1

\* one step on one block sequence: nothing, one block appended, or the last
\* block removed
TailStep(old, new) ==
    \/ new = old
    \/ Len(new) = Len(old) + 1 /\ Front(new) = old
    \/ Len(old) >= 1 /\ new = Front(old)

TailSteps(f, g) == \A i \in DOMAIN f : TailStep(f[i].Blocks, g[i].Blocks)

\* C15: an operation changes a block sequence only at its tail: each of its
\* steps appends a block or removes the last one, so over the operation the
\* blocks that stay keep their position and all their fields.
C15_TailOnlyChanges ==
    /\ TailSteps(last.pre, last.appended)
    /\ TailSteps(last.appended, last.rebalanced)
    /\ TailSteps(last.rebalanced, merkleForest)
    /\ \A i \in Shards :
           LET old == last.pre[i].Blocks
               new == merkleForest[i].Blocks
           IN  /\ Len(new) >= Len(old) - 1
               /\ SubSeq(new, 1, Len(old) - 1) = Front(old)

\* a shard lost its old tail to the rebalance and got another to the sync
C15_Witness ==
    /\ AcceptedIngest
    /\ \E i \in Shards :
           /\ merkleForest[i].Blocks # last.pre[i].Blocks
           /\ Len(merkleForest[i].Blocks) = Len(last.pre[i].Blocks)
    /\ \E i \in Shards :
           Len(merkleForest[i].Blocks) = Len(last.pre[i].Blocks) + 1

\* C19: synchronizeShards never touches blocks, a second run changes nothing
\* the first one set, and at an operation boundary it changes nothing at all.
C19_RecomputeIsIdempotentNoOp ==
    last.op = "recompute" =>
        /\ SameBlocks(merkleForest, last.pre)
        /\ synchronizeShards(merkleForest) = merkleForest
        /\ merkleForest = last.pre
        /\ amqFilters = last.preAmq

C19_Witness ==
    /\ last.op = "recompute"
    /\ TotalBlocks(merkleForest) > cfgShardCount
    /\ \E i \in Shards : BlockCount(merkleForest, i) >= 3
    /\ merkleForest = last.pre

\* every accepted ingest inserted its new hash into one filter
AcceptedCount == SumOf([i \in Shards |-> Cardinality(amqFilters[i])], Shards)

\* the state just after the fifth of five accepted ingests with two shards of
\* capacity two
FifthIngestOfScenario ==
    /\ cfgShardCount = 2
    /\ cfgCapacity = 2
    /\ ingests = 5
    /\ AcceptedCount = 5
    /\ AcceptedIngest

\* C16 as stated: the fifth ingest leaves one shard with 3 blocks, and the
\* rebalance it triggers brings that shard to 2 and the other to 2, with
\* every root equal to the recomputed root.
C16_FifthIngestRebalancesThreeToTwo ==
    FifthIngestOfScenario =>
        /\ \E i \in Shards : BlockCount(last.appended, i) = 3
        /\ last.rebalanceCalled
        /\ \A i \in Shards : BlockCount(last.rebalanced, i) = 2
        /\ \A i \in Shards :
               merkleForest[i].MerkleRoot = updateMerkleRoot(merkleForest[i].Blocks)

\* C16: the fifth ingest appends to shard 0, leaving 6 and 5 blocks; the
\* rebalance comparison runs and moves nothing; the neighbour sync brings
\* both shards to 6, and every root equals the recomputed root.
C16_FifthIngestKeepsShardsLevel ==
    FifthIngestOfScenario =>
        /\ last.target = 0
        /\ BlockCount(last.appended, 0) = 6
        /\ BlockCount(last.appended, 1) = 5
        /\ last.rebalanceCalled
        /\ last.rebalanced = last.appended
        /\ \A i \in Shards : BlockCount(merkleForest, i) = 6
        /\ \A i \in Shards :
               merkleForest[i].MerkleRoot = updateMerkleRoot(merkleForest[i].Blocks)

C16_Witness ==
    /\ FifthIngestOfScenario
    /\ last.rebalanceCalled
    /\ BlockCount(merkleForest, 1) = 6

\* C17: in a shard of one block the proof for index 0 is empty, the root is
\* the block's hash, and the empty proof verifies for index 0.
C17_SingleBlockProofIsEmpty ==
    BlockCount(merkleForest, 0) = 1 =>
        /\ merkleForest[0].MerkleRoot = At(merkleForest[0].Blocks, 0).Hash
        /\ (phase # "idle" /\ proofIdx = 0) => proof = <<>>
        /\ (phase = "verified" /\ proofIdx = 0 /\ checkIdx = 0) => verdict = TRUE

C17_Witness ==
    /\ BlockCount(merkleForest, 0) = 1
    /\ phase = "verified"
    /\ proofIdx = 0
    /\ checkIdx = 0
    /\ proof = <<>>
    /\ verdict = TRUE

ValidIndices == 0..(BlockCount(merkleForest, 0) - 1)

\* C18: a proof request for an index outside the shard is refused: what it
\* returns is not a proof of any block of the shard, and the forest is left
\* as it was.
C18_InvalidIndexIsRefused ==
    (phase # "idle" /\ proofIdx \notin ValidIndices) =>
        /\ \A i \in ValidIndices : proof # generateMerkleProof(merkleForest, 0, i)
        /\ (phase = "verified" => verdict = FALSE)
        /\ merkleForest = last.pre

BothCallsAccepted ==
    \A p \in Callers : calls[p].pc = "done" /\ calls[p].accepted

NewBlocksPresent ==
    \A p \in Callers :
        \E i \in Shards : \E k \in 1..BlockCount(merkleForest, i) :
            merkleForest[i].Blocks[k] = calls[p].newBlock

GenesisBlocksPresent ==
    \A i \in Shards : At(merkleForest[i].Blocks, 0) = createGenesisBlock(i)

PrevHashesLinked ==
    \A i \in Shards :
        \A k \in 2..BlockCount(merkleForest, i) :
            merkleForest[i].Blocks[k].PrevHash = merkleForest[i].Blocks[k - 1].Hash

RootsRecomputable ==
    \A i \in Shards :
        merkleForest[i].MerkleRoot = updateMerkleRoot(merkleForest[i].Blocks)

\* C20: when two interleaved calls of addBlockToShards have both completed
\* and both were accepted, both new blocks are in the forest, no block was
\* lost or overwritten, every shard's blocks are linked by PrevHash and every
\* root is the root of the shard's blocks.
C20_InterleavedIngestsKeepBothBlocks ==
    BothCallsAccepted =>
        /\ NewBlocksPresent
        /\ GenesisBlocksPresent
        /\ PrevHashesLinked
        /\ RootsRecomputable

LowestWithCount(forest, n) ==
    CHOOSE i \in DOMAIN forest :
        /\ BlockCount(forest, i) = n
        /\ \A j \in DOMAIN forest : BlockCount(forest, j) = n => i <= j

RebalanceMoved == AcceptedIngest /\ ~SameBlocks(last.appended, last.rebalanced)

\* C21: when the rebalance step moves a block, the donor is the
\* lowest-indexed shard with the largest count, the recipient the
\* lowest-indexed shard with the smallest count, the donor's tail becomes the
\* recipient's tail and nothing else moves, both roots are recomputed; and
\* nothing is moved when the largest and smallest counts differ by at most 1.
C21_RebalanceMovesMaxTailToMin ==
    /\ RebalanceMoved =>
           LET before == last.appended
               after == last.rebalanced
               donor == LowestWithCount(before, MaxOf(Counts(before)))
               recipient == LowestWithCount(before, MinOf(Counts(before)))
           IN  /\ MovedOne(before, after, donor, recipient)
               /\ after[donor].MerkleRoot = updateMerkleRoot(after[donor].Blocks)
               /\ after[recipient].MerkleRoot =
                      updateMerkleRoot(after[recipient].Blocks)
               /\ TotalBlocks(after) = TotalBlocks(before)
    /\ (AcceptedIngest /\ Gap(Counts(last.appended)) <= 1) =>
           last.rebalanced = last.appended

\* two shards share the largest count and two the smallest when a block moves
C21_Witness ==
    /\ RebalanceMoved
    /\ \E a, b \in Shards :
           /\ a < b
           /\ BlockCount(last.appended, a) = MaxOf(Counts(last.appended))
           /\ BlockCount(last.appended, b) = MaxOf(Counts(last.appended))
    /\ \E a, b \in Shards :
           /\ a < b
           /\ BlockCount(last.appended, a) = MinOf(Counts(last.appended))
           /\ BlockCount(last.appended, b) = MinOf(Counts(last.appended))

\* C22: every accepted ingest appends its block to a shard that had the
\* fewest blocks of all shards when the target was selected.
C22_TargetHasFewestBlocks ==
    AcceptedIngest =>
        /\ BlockCount(last.pre, last.target) = MinOf(Counts(last.pre))
        /\ last.appended[last.target].Blocks =
               Append(last.pre[last.target].Blocks, last.newBlock)

\* C23: the proof the neighbour sync generates for a shard's tail verifies
\* against that shard's stored root in every state, so an accepted ingest
\* never takes the sync's abort branch and ends with one more block in the
\* neighbour shard.
C23_SyncProofAlwaysVerifies ==
    /\ \A i \in Shards : TailProofValid(merkleForest, i)
    /\ AcceptedIngest =>
           LET neighbor == NeighborIndex(last.rebalanced, last.target)
           IN  /\ TailProofValid(last.rebalanced, last.target)
               /\ last.synced
               /\ BlockCount(merkleForest, neighbor) =
                      BlockCount(last.rebalanced, neighbor) + 1

\* the source's tail is the unpaired last leaf of an odd level, in an ingest
\* whose rebalance step moved a block
C23_Witness ==
    /\ AcceptedIngest
    /\ last.synced
    /\ RebalanceMoved
    /\ BlockCount(last.rebalanced, last.target) >= 3
    /\ BlockCount(last.rebalanced, last.target) % 2 = 1

GenesisInPlace(forest) ==
    \A i \in DOMAIN forest :
        /\ BlockCount(forest, i) >= 1
        /\ At(forest[i].Blocks, 0) = createGenesisBlock(i)

\* C24: no shard is ever empty and position 0 of every shard holds the
\* genesis block the shard was initialised with, at every operation boundary
\* and after every step of an ingest, so every tail lookup is defined and the
\* rebalance step never removes a genesis block.
C24_GenesisStaysFirst ==
    /\ GenesisInPlace(merkleForest)
    /\ GenesisInPlace(last.pre)
    /\ GenesisInPlace(last.appended)
    /\ GenesisInPlace(last.rebalanced)
    /\ \A i \in Shards :
           At(merkleForest[i].Blocks, 0) = At(InitForest(cfgShardCount)[i].Blocks, 0)

\* a rebalance move took a block from a shard while another shard still
\* holds its genesis block only
C24_Witness ==
    /\ RebalanceMoved
    /\ \E i \in Shards : BlockCount(last.rebalanced, i) = 1
    /\ \E i \in Shards :
           /\ BlockCount(last.rebalanced, i) < BlockCount(last.appended, i)
           /\ BlockCount(last.rebalanced, i) = 2

Holds(forest, i, block) ==
    \E k \in 1..BlockCount(forest, i) : forest[i].Blocks[k] = block

SyncedCopy == Tail1(merkleForest[NeighborIndex(merkleForest, last.target)].Blocks)

RebalanceTookFromTarget ==
    /\ RebalanceMoved
    /\ BlockCount(last.rebalanced, last.target) <
           BlockCount(last.appended, last.target)

C26_NoHashTwiceInShard ==
    cfgShardCount >= 2 =>
        \A i \in Shards : DistinctLeaves(merkleForest[i].Blocks)

\* C27: with two shards, whatever the capacity, both shards hold the same
\* number of blocks after every completed ingest, and the rebalance step of
\* an ingest, whether or not the comparison runs, moves no block.
C27_TwoShardsStayLevel ==
    cfgShardCount = 2 =>
        /\ BlockCount(merkleForest, 0) = BlockCount(merkleForest, 1)
        /\ last.rebalanced = last.appended
        /\ AcceptedIngest =>
               /\ Gap(Counts(last.appended)) = 1
               /\ BlockCount(merkleForest, 0) = BlockCount(last.pre, 0) + 1

\* the comparison ran, on a target over capacity, and moved nothing
C27_Witness ==
    /\ cfgShardCount = 2
    /\ cfgCapacity = 1
    /\ AcceptedIngest
    /\ last.rebalanceCalled
    /\ last.rebalanced = last.appended
    /\ BlockCount(merkleForest, 0) >= 4
    /\ BlockCount(merkleForest, 1) = BlockCount(merkleForest, 0)

====
